---- MODULE Spec2Model ----
(***************************************************************************)
(* A model of src/src/backtrace/libunwind.rs: the Frame type, the push     *)
(* walk `trace` driven by _Unwind_Backtrace, and the pull walk             *)
(* `trace_external_api` driven by the unw_* cursor primitives.             *)
(*                                                                         *)
(* The native unwinding provider is the environment: its status codes are  *)
(* drawn nondeterministically, its stack is chosen in Init.  The user      *)
(* callback is the environment too: it may query or clone the frame it is  *)
(* given, and then returns true, returns false, or exits abnormally.       *)
(***************************************************************************)
EXTENDS Integers, Sequences, FiniteSets

VARIABLES
    target,       \* [os, arch] the build is compiled for (cfg!(target_os), cfg(target_arch))
    feature,      \* "nongnu" | "llvm": the cargo feature selecting the cursor provider
    stack,        \* the provider's view of the call stack, innermost first
    vrsOk,        \* whether the provider's _Unwind_VRS_Get writes the word it is asked for
    mode,         \* "idle" | "push" | "pull": which entry point was called
    pc,           \* position of the walking thread
    pos,          \* the provider's walk state: index of the frame the context/cursor is at
    signal_frame, \* argument of trace_external_api
    bomb,         \* the Bomb local of the current iteration: [enabled]
    curFrame,     \* the Frame handed to the callback in progress
    cbReturns,    \* history: keep_going of every callback that returned, in order
    chain,        \* the Result threaded through the and_then chain of trace_external_api
    ret,          \* what the entry point returned to its caller
    log,          \* history: provider primitives called and callback events, in order
    delivered,    \* history: the frames handed to the callback, in order
    steps,        \* history: number of unw_step calls
    lastStep,     \* history: StepResult of the last step
    lastGetFrame, \* history: the Result of the last get_frame (its frame is curFrame)
    endReason,    \* history: why the walk ended
    provFailed,   \* history: the provider reported a failure for a frame on the stack
    saved,        \* a Frame the callback cloned and kept
    liveAtClone,  \* history: ip/sp/symbol_address read from the frame when it was cloned
    lastQuery     \* history: the Frame accessor just called, its result, the provider calls it made

vars == <<target, feature, stack, vrsOk, mode, pc, pos, signal_frame, bomb, curFrame,
          cbReturns, chain, ret, log, delivered, steps, lastStep, lastGetFrame,
          endReason, provFailed, saved, liveAtClone, lastQuery>>

-----------------------------------------------------------------------------
(* Bounds of the model. *)

\* deepest call stack walked
MaxDepth == 3
\* provider status codes range over -MaxCode..1
MaxCode == 2

NegCodes == {0 - c : c \in 1..MaxCode}
PosCodes == {1}
NonZero == NegCodes \cup PosCodes

-----------------------------------------------------------------------------
(* Build configuration. *)

Targets ==
    { [os |-> "macos",   arch |-> "x86_64"],
      [os |-> "ios",     arch |-> "aarch64"],
      [os |-> "linux",   arch |-> "x86_64"],
      [os |-> "linux",   arch |-> "aarch64"],
      [os |-> "linux",   arch |-> "arm"] }

Features == {"nongnu", "llvm"}

\* the cfg_if at the top of mod uw: the targets where _Unwind_GetIP and friends
\* are macros and the module defines them over _Unwind_VRS_Get
VrsTarget(t) == t.arch = "arm" /\ t.os \in {"android", "freebsd", "linux", "horizon"}

\* mod external_unwind declares the unw_* externs for these architectures only
HasExternalUnwind(t) == t.arch \in {"x86_64", "aarch64"}

-----------------------------------------------------------------------------
(* The provider's stack.  It lies at the bottom of the address space or    *)
(* just below 2^31, the largest words TLC's integers hold.  Frame i (1 = innermost) has    *)
(* stack pointer base + 16*i, its code lies in the function starting at    *)
(* base + 4*i, and its instruction pointer is 1 or 2 past that start,      *)
(* alternating from frame to frame.                                        *)

Parities == {0, 1}

Bases == {0, 2^30 + (2^30 - 128)}

StackFrame(i, k, base) ==
    [ip |-> base + 4 * i + 1 + ((i + k) % 2),
     sp |-> base + 16 * i,
     start_ip |-> base + 4 * i]

Stacks ==
    UNION { { [i \in 1..d |-> StackFrame(i, k, base)] : k \in Parities, base \in Bases }
            : d \in 1..MaxDepth }

Depth == Len(stack)

\* the provider's unwind table: the start of the function containing pc
ProviderFindEnclosingFunction(pc_) == pc_ - (pc_ % 4)

-----------------------------------------------------------------------------
(* mod uw: the reason codes and the register/ABI shim of the push walk.   *)

URC_NO_REASON == 0
URC_FATAL_PHASE1_ERROR == 3
URC_END_OF_STACK == 5
URC_FAILURE == 9

\* (val & !1) on an unsigned word
ClearBit0(w) == w - (w % 2)

\* what the provider holds for the instruction pointer of context ctx
RawIP(ctx) == stack[ctx].ip
RawSP(ctx) == stack[ctx].sp

\* let mut val: _Unwind_Word = 0; let _ = _Unwind_VRS_Get(.., ptr): val afterwards,
\* the provider holding `word` for the register and writing it only when it succeeds
VrsGet(word, ok) == IF ok THEN word ELSE 0

\* mutant: the mode bit is left in the instruction pointer
MutVrsGetIP(word, ok) == VrsGet(word, ok)

\* the ARM EABI _Unwind_GetIP: core register 15, (val & !1)
VrsGetIP(word, ok) == ClearBit0(VrsGet(word, ok))

\* the ARM EABI get_sp: core register 13, val
VrsGetSp(word, ok) == VrsGet(word, ok)

\* uw::_Unwind_GetIP: the extern on most targets, the _Unwind_VRS_Get
\* expansion with the low bit cleared on the ARM EABI targets
Unwind_GetIP(ctx) ==
    IF VrsTarget(target) THEN VrsGetIP(RawIP(ctx), vrsOk) ELSE RawIP(ctx)

\* uw::get_sp: _Unwind_GetCFA, or core register 13 on the ARM EABI targets
get_sp(ctx) ==
    IF VrsTarget(target) THEN VrsGetSp(RawSP(ctx), vrsOk) ELSE RawSP(ctx)

\* uw::_Unwind_FindEnclosingFunction: the extern, or the no-op on the ARM EABI targets
Unwind_FindEnclosingFunction(pc_) ==
    IF VrsTarget(target) THEN pc_ ELSE ProviderFindEnclosingFunction(pc_)

-----------------------------------------------------------------------------
(* enum Frame and its accessors.  Every accessor is modelled by the value  *)
(* it returns and by the provider primitives it calls.                     *)

Raw(ctx) == [kind |-> "Raw", ctx |-> ctx, ip |-> 0, sp |-> 0, symbol_address |-> 0]

Cloned(ip, sp, symbol_address) ==
    [kind |-> "Cloned", ctx |-> 0, ip |-> ip, sp |-> sp, symbol_address |-> symbol_address]

NoFrame == [kind |-> "None", ctx |-> 0, ip |-> 0, sp |-> 0, symbol_address |-> 0]

\* cfg!(target_os = "macos") || cfg!(target_os = "ios")
AppleTarget(t) == t.os \in {"macos", "ios"}

FrameIp(f) == IF f.kind = "Cloned" THEN f.ip ELSE Unwind_GetIP(f.ctx)

FrameIpCalls(f) == IF f.kind = "Cloned" THEN << >> ELSE <<"_Unwind_GetIP">>

FrameSp(f) == IF f.kind = "Cloned" THEN f.sp ELSE get_sp(f.ctx)

FrameSpCalls(f) == IF f.kind = "Cloned" THEN << >> ELSE <<"get_sp">>

\* mutant: no macOS/iOS special case
MutFrameSymbolAddress(f) ==
    IF f.kind = "Cloned" THEN f.symbol_address
    ELSE Unwind_FindEnclosingFunction(FrameIp(f))

\* Frame::symbol_address
FrameSymbolAddress(f) ==
    IF f.kind = "Cloned" THEN f.symbol_address
    ELSE IF AppleTarget(target) THEN FrameIp(f)
    ELSE Unwind_FindEnclosingFunction(FrameIp(f))

FrameSymbolAddressCalls(f) ==
    IF f.kind = "Cloned" THEN << >>
    ELSE IF AppleTarget(target) THEN FrameIpCalls(f)
    ELSE FrameIpCalls(f) \o <<"_Unwind_FindEnclosingFunction">>

\* mutant: module_base_address answers Some(null)
MutFrameModuleBaseAddress(f) == [some |-> TRUE, val |-> 0]

\* module_base_address is None for every frame: [some |-> FALSE]
FrameModuleBaseAddress(f) == [some |-> FALSE, val |-> 0]

\* mutant: the clone takes its symbol address from the instruction pointer
MutFrameClone(f) == Cloned(FrameIp(f), FrameSp(f), FrameIp(f))

\* impl Clone for Frame
FrameClone(f) == Cloned(FrameIp(f), FrameSp(f), FrameSymbolAddress(f))

FrameCloneCalls(f) == FrameIpCalls(f) \o FrameSpCalls(f) \o FrameSymbolAddressCalls(f)

-----------------------------------------------------------------------------
(* Bomb, the re-entrancy guard (defined in the crate root): dropping it    *)
(* while enabled panics; during the unwind of a callback's own panic that  *)
(* second panic aborts the process.                                        *)

NoBomb == [enabled |-> FALSE]

\* let mut bomb = Bomb { enabled: true };
Arm == [enabled |-> TRUE]

\* mutant: the guard is left armed after the callback returns
MutDisarm(b) == b

\* bomb.enabled = false;
Disarm(b) == [b EXCEPT !.enabled = FALSE]

\* Drop for Bomb, run when the callback's unwind leaves the iteration
BombDrop(b) == IF b.enabled THEN "aborted" ELSE "unwinding"

-----------------------------------------------------------------------------
(* mod external_unwind: the cursor provider binding of the pull walk.      *)

UNW_INIT_SIGNAL_FRAME == 1

\* the UNW_REG_IP / UNW_REG_SP in scope: mod llvm, mod nongnu_x86_64 or mod nongnu_aarch64
UNW_REG_IP ==
    IF feature = "llvm" THEN 0 - 1 ELSE IF target.arch = "aarch64" THEN 30 ELSE 16

UNW_REG_SP ==
    IF feature = "llvm" THEN 0 - 2 ELSE IF target.arch = "aarch64" THEN 31 ELSE 7

\* Result<_, UnwindError>: UnwindError carries one c_int and nothing else
Ok == [ok |-> TRUE, code |-> 0]

UnwindError(code) == [ok |-> FALSE, code |-> code]

\* mutant: the status of unw_getcontext is not looked at
MutUnwContextNew(c) == Ok

\* UnwContext::new, given the status c of unw_getcontext
UnwContextNew(c) == IF c = 0 THEN Ok ELSE UnwindError(0 - 1)

\* the primitive UnwContext::cursor calls in this build
InitPrimitive == IF feature = "nongnu" THEN "unw_init_local2" ELSE "unw_init_local"

\* mutant: the flag is dropped in every build
MutInitFlag(sf) == 0

\* the signal-frame flag that primitive is given; unw_init_local takes none
InitFlag(sf) ==
    IF feature = "nongnu" THEN (IF sf THEN UNW_INIT_SIGNAL_FRAME ELSE 0) ELSE 0

\* mutant: the status test is inverted
MutContextCursor(r) == IF r # 0 THEN Ok ELSE UnwindError(r)

\* UnwContext::cursor, given the status r of the initialization primitive
ContextCursor(r) == IF r = 0 THEN Ok ELSE UnwindError(r)

\* mutant: 0 is taken for success (res >= 0 instead of res > 0)
MutStepClassify(res) ==
    IF res >= 0 THEN [tag |-> "Success", code |-> 0]
    ELSE [tag |-> "Error", code |-> res]

\* UnwCursor::step, given the status res of unw_step
StepClassify(res) ==
    IF res > 0 THEN [tag |-> "Success", code |-> 0]
    ELSE IF res = 0 THEN [tag |-> "End", code |-> 0]
    ELSE [tag |-> "Error", code |-> res]

NoStep == [tag |-> "None", code |-> 0]

\* the provider's register file at cursor position p
UnwGetReg(p, num) ==
    IF num = UNW_REG_IP THEN stack[p].ip
    ELSE IF num = UNW_REG_SP THEN stack[p].sp
    ELSE 0

Event(ev, p, arg, res) == [ev |-> ev, pos |-> p, arg |-> arg, res |-> res]

\* UnwCursor::get_frame at position p, the three queries answering r1, r2, r3:
\* the queries it issues, in order, each only if the one before answered 0
GetFrameCalls(p, r1, r2, r3) ==
    <<Event("unw_get_proc_info", p, 0, r1)>>
    \o (IF r1 = 0 THEN <<Event("unw_get_reg", p, UNW_REG_IP, r2)>> ELSE << >>)
    \o (IF r1 = 0 /\ r2 = 0 THEN <<Event("unw_get_reg", p, UNW_REG_SP, r3)>> ELSE << >>)

\* mutant: the status of the instruction-pointer read is not looked at
MutGetFrameResult(r1, r2, r3) ==
    IF r1 # 0 THEN UnwindError(r1)
    ELSE IF r3 # 0 THEN UnwindError(r3)
    ELSE Ok

\* ... and its result
GetFrameResult(r1, r2, r3) ==
    IF r1 # 0 THEN UnwindError(r1)
    ELSE IF r2 # 0 THEN UnwindError(r2)
    ELSE IF r3 # 0 THEN UnwindError(r3)
    ELSE Ok

\* mutant: the two register reads land in each other's field
MutGetFrameFrame(p) ==
    Cloned(UnwGetReg(p, UNW_REG_SP), UnwGetReg(p, UNW_REG_IP), stack[p].start_ip)

\* ... and the frame it builds when all three answered 0
GetFrameFrame(p) ==
    Cloned(UnwGetReg(p, UNW_REG_IP), UnwGetReg(p, UNW_REG_SP), stack[p].start_ip)

-----------------------------------------------------------------------------
(* The two walks.                                                          *)

UnitRet == [tag |-> "Unit", stage |-> "none", code |-> 0]
NoRet == [tag |-> "None", stage |-> "none", code |-> 0]

\* mutant: trace hands the provider's reason code back to its caller
MutTraceReturn(code) == [tag |-> "Code", stage |-> "none", code |-> code]

\* trace: the value of _Unwind_Backtrace is dropped, trace returns ()
TraceReturn(code) == UnitRet

\* trace_external_api: match <chain> { _ => () }
PullReturn(result) == UnitRet

\* trace_fn: if keep_going { _URC_NO_REASON } else { _URC_FAILURE }
ReasonCode(b) == IF b THEN URC_NO_REASON ELSE URC_FAILURE

\* mutant: the loop ignores keep_going and always goes on to step
MutNextAfterCallback(b) == "step"

\* trace_external_api: if !keep_going { break; } -- otherwise go on to x.step()
NextAfterCallback(b) == IF b THEN "step" ELSE "done"

\* mutant: the loop only stops on End, and goes on after an Error
MutNextAfterStep(r) == IF r.tag = "End" THEN "done" ELSE "get_frame"

\* trace_external_api: match x.step() { Success => continue, _ => break }
NextAfterStep(r) == IF r.tag = "Success" THEN "get_frame" ELSE "done"

NoQuery == [on |-> "none", op |-> "none", some |-> FALSE, val |-> 0, calls |-> << >>]
NoLive == [valid |-> FALSE, at |-> 0, ip |-> 0, sp |-> 0, symbol_address |-> 0]

Init ==
    /\ target \in Targets
    /\ feature \in Features
    /\ stack \in Stacks
    /\ vrsOk \in (IF VrsTarget(target) THEN BOOLEAN ELSE {TRUE})
    /\ mode = "idle"
    /\ pc = "idle"
    /\ pos = 0
    /\ signal_frame = FALSE
    /\ bomb = NoBomb
    /\ curFrame = NoFrame
    /\ cbReturns = << >>
    /\ chain = Ok
    /\ ret = NoRet
    /\ log = << >>
    /\ delivered = << >>
    /\ steps = 0
    /\ lastStep = NoStep
    /\ lastGetFrame = Ok
    /\ endReason = "none"
    /\ provFailed = FALSE
    /\ saved = NoFrame
    /\ liveAtClone = NoLive
    /\ lastQuery = NoQuery

config == <<target, feature, stack, vrsOk>>
keptFrame == <<saved, liveAtClone>>

\* entering the user callback with frame f: the guard is armed first
EnterCallback(f) ==
    /\ bomb' = Arm
    /\ curFrame' = f
    /\ delivered' = Append(delivered, f)
    /\ pc' = "in_cb"

\* ---- push walk ----

\* trace(cb): hand trace_fn to _Unwind_Backtrace
TraceStart ==
    /\ pc = "idle"
    /\ mode' = "push"
    /\ pc' = "provider"
    /\ pos' = 1
    /\ log' = Append(log, Event("_Unwind_Backtrace", 0, 0, 0))
    /\ lastQuery' = NoQuery
    /\ UNCHANGED <<config, lastGetFrame, keptFrame, signal_frame, bomb, curFrame, cbReturns, chain,
                   ret, delivered, steps, lastStep, endReason, provFailed>>

\* the provider invokes trace_fn for the frame it is at
TraceFnEnter ==
    /\ mode = "push" /\ pc = "provider" /\ pos <= Depth
    /\ EnterCallback(Raw(pos))
    /\ log' = Append(log, Event("cb_enter", pos, 0, 0))
    /\ lastQuery' = NoQuery
    /\ UNCHANGED <<config, lastGetFrame, keptFrame, mode, pos, signal_frame, cbReturns, chain, ret,
                   steps, lastStep, endReason, provFailed>>

\* the callback returns b; trace_fn disarms and answers the provider, which goes
\* on to the next frame on _URC_NO_REASON and gives up on anything else
TraceFnReturn(b) ==
    /\ mode = "push" /\ pc = "in_cb"
    /\ bomb' = Disarm(bomb)
    /\ cbReturns' = Append(cbReturns, b)
    /\ log' = Append(log, Event("cb_ret", pos, ReasonCode(b), IF b THEN 1 ELSE 0))
    /\ curFrame' = NoFrame
    /\ lastQuery' = NoQuery
    /\ IF ReasonCode(b) = URC_NO_REASON
       THEN /\ pos' = pos + 1
            /\ pc' = "provider"
            /\ UNCHANGED <<ret, endReason>>
       ELSE /\ pc' = "done"
            /\ ret' = TraceReturn(URC_FATAL_PHASE1_ERROR)
            /\ endReason' = "callback_stop"
            /\ pos' = pos
    /\ UNCHANGED <<config, lastGetFrame, keptFrame, mode, signal_frame, chain, delivered, steps,
                   lastStep, provFailed>>

\* the provider has passed the outermost frame: _Unwind_Backtrace returns
UnwindBacktraceEnd ==
    /\ mode = "push" /\ pc = "provider" /\ pos > Depth
    /\ pc' = "done"
    /\ ret' = TraceReturn(URC_END_OF_STACK)
    /\ endReason' = "end_of_stack"
    /\ lastQuery' = NoQuery
    /\ UNCHANGED <<config, lastGetFrame, keptFrame, mode, pos, signal_frame, bomb, curFrame, cbReturns,
                   chain, log, delivered, steps, lastStep, provFailed>>

\* the provider fails internally before reaching the frame it is at
UnwindBacktraceFail ==
    /\ mode = "push" /\ pc = "provider" /\ pos <= Depth
    /\ pc' = "done"
    /\ ret' = TraceReturn(URC_FATAL_PHASE1_ERROR)
    /\ endReason' = "provider_failure"
    /\ provFailed' = TRUE
    /\ lastQuery' = NoQuery
    /\ UNCHANGED <<config, lastGetFrame, keptFrame, mode, pos, signal_frame, bomb, curFrame, cbReturns,
                   chain, log, delivered, steps, lastStep>>

\* ---- pull walk ----

\* the codes the provider may answer with
StatusCodes == {0} \cup NonZero

\* a query at a position past the outermost frame finds nothing
ProcInfoCodes(p) == IF p <= Depth THEN StatusCodes ELSE NegCodes

\* unw_step: positive while an outer frame remains, 0 at the outermost frame,
\* negative on failure
StepCodes(p) == IF p < Depth THEN PosCodes \cup NegCodes ELSE {0} \cup NegCodes

\* trace_external_api(f, signal_frame)
PullStart(sf) ==
    /\ pc = "idle"
    /\ HasExternalUnwind(target)
    /\ mode' = "pull"
    /\ signal_frame' = sf
    /\ pc' = "capture"
    /\ lastQuery' = NoQuery
    /\ UNCHANGED <<config, lastGetFrame, keptFrame, pos, bomb, curFrame, cbReturns, chain, ret, log,
                   delivered, steps, lastStep, endReason, provFailed>>

\* UnwContext::new()
UnwContextNewCall ==
    /\ mode = "pull" /\ pc = "capture"
    /\ \E c \in StatusCodes :
        /\ log' = Append(log, Event("unw_getcontext", 0, 0, c))
        /\ chain' = UnwContextNew(c)
        /\ IF chain'.ok
           THEN /\ pc' = "init"
                /\ UNCHANGED <<ret, endReason, provFailed>>
           ELSE /\ pc' = "done"
                /\ ret' = PullReturn(chain')
                /\ endReason' = "capture_failed"
                /\ provFailed' = TRUE
    /\ lastQuery' = NoQuery
    /\ UNCHANGED <<config, lastGetFrame, keptFrame, mode, pos, signal_frame, bomb, curFrame, cbReturns,
                   delivered, steps, lastStep>>

\* .and_then(|mut x| x.cursor(signal_frame))
ContextCursorCall ==
    /\ mode = "pull" /\ pc = "init"
    /\ \E r \in StatusCodes :
        /\ log' = Append(log, Event(InitPrimitive, 0, InitFlag(signal_frame), r))
        /\ chain' = ContextCursor(r)
        /\ IF chain'.ok
           THEN /\ pc' = "get_frame"
                /\ pos' = 1
                /\ UNCHANGED <<ret, endReason, provFailed>>
           ELSE /\ pc' = "done"
                /\ pos' = pos
                /\ ret' = PullReturn(chain')
                /\ endReason' = "init_failed"
                /\ provFailed' = TRUE
    /\ lastQuery' = NoQuery
    /\ UNCHANGED <<config, lastGetFrame, keptFrame, mode, signal_frame, bomb, curFrame, cbReturns,
                   delivered, steps, lastStep>>

\* while let Ok(frame) = x.get_frame() { ... arm the guard, call f(&frame)
GetFrameCall ==
    /\ mode = "pull" /\ pc = "get_frame"
    /\ \E r1 \in ProcInfoCodes(pos), r2 \in StatusCodes, r3 \in StatusCodes :
        /\ r1 # 0 => r2 = 0
        /\ (r1 # 0 \/ r2 # 0) => r3 = 0
        /\ lastGetFrame' = GetFrameResult(r1, r2, r3)
        /\ IF GetFrameResult(r1, r2, r3).ok
           THEN /\ EnterCallback(GetFrameFrame(pos))
                /\ log' = log \o GetFrameCalls(pos, r1, r2, r3)
                              \o <<Event("cb_enter", pos, 0, 0)>>
                /\ UNCHANGED <<chain, ret, endReason, provFailed>>
           ELSE /\ log' = log \o GetFrameCalls(pos, r1, r2, r3)
                /\ pc' = "done"
                /\ chain' = Ok
                /\ ret' = PullReturn(chain')
                /\ endReason' = "query_failed"
                /\ provFailed' = (provFailed \/ pos <= Depth)
                /\ UNCHANGED <<bomb, curFrame, delivered>>
    /\ lastQuery' = NoQuery
    /\ UNCHANGED <<config, keptFrame, mode, pos, signal_frame, cbReturns, steps, lastStep>>

\* the callback returns b: disarm, then break or go on to step
PullCallbackReturn(b) ==
    /\ mode = "pull" /\ pc = "in_cb"
    /\ bomb' = Disarm(bomb)
    /\ cbReturns' = Append(cbReturns, b)
    /\ log' = Append(log, Event("cb_ret", pos, 0, IF b THEN 1 ELSE 0))
    /\ curFrame' = NoFrame
    /\ pc' = NextAfterCallback(b)
    /\ IF pc' = "done"
       THEN /\ chain' = Ok
            /\ ret' = PullReturn(chain')
            /\ endReason' = "callback_stop"
       ELSE UNCHANGED <<chain, ret, endReason>>
    /\ lastQuery' = NoQuery
    /\ UNCHANGED <<config, lastGetFrame, keptFrame, mode, pos, signal_frame, delivered, steps, lastStep,
                   provFailed>>

\* match x.step() { StepResult::Success => continue, _ => break }
StepCall ==
    /\ mode = "pull" /\ pc = "step"
    /\ \E res \in StepCodes(pos) :
        /\ log' = Append(log, Event("unw_step", pos, 0, res))
        /\ lastStep' = StepClassify(res)
        /\ pos' = IF res > 0 THEN pos + 1 ELSE pos
        /\ provFailed' = (provFailed \/ res < 0)
        /\ pc' = NextAfterStep(lastStep')
        /\ IF pc' = "done"
           THEN /\ chain' = Ok
                /\ ret' = PullReturn(chain')
                /\ endReason' = IF res < 0 THEN "step_failed" ELSE "end_of_stack"
           ELSE UNCHANGED <<chain, ret, endReason>>
    /\ steps' = steps + 1
    /\ lastQuery' = NoQuery
    /\ UNCHANGED <<config, lastGetFrame, keptFrame, mode, signal_frame, bomb, curFrame, cbReturns,
                   delivered>>

\* ---- the user callback, in either walk ----

\* the callback exits abnormally: its unwind drops the Bomb of the iteration
CallbackPanic ==
    /\ pc = "in_cb"
    /\ pc' = BombDrop(bomb)
    /\ log' = Append(log, Event("cb_panic", pos, 0, 0))
    /\ endReason' = "callback_panic"
    /\ lastQuery' = NoQuery
    /\ UNCHANGED <<config, lastGetFrame, keptFrame, mode, pos, signal_frame, bomb, curFrame, cbReturns,
                   chain, ret, delivered, steps, lastStep, provFailed>>

Ops == {"ip", "sp", "symbol_address", "module_base_address"}

\* calling accessor op on frame f: what it returns and which provider primitives it calls
QueryResult(on, op, f) ==
    [on |-> on,
     op |-> op,
     some |-> IF op = "module_base_address" THEN FrameModuleBaseAddress(f).some ELSE TRUE,
     val |-> CASE op = "ip" -> FrameIp(f)
               [] op = "sp" -> FrameSp(f)
               [] op = "symbol_address" -> FrameSymbolAddress(f)
               [] OTHER -> FrameModuleBaseAddress(f).val,
     calls |-> CASE op = "ip" -> FrameIpCalls(f)
                 [] op = "sp" -> FrameSpCalls(f)
                 [] op = "symbol_address" -> FrameSymbolAddressCalls(f)
                 [] OTHER -> << >>]

\* the callback calls an accessor of the frame it was given
CbQuery(op) ==
    /\ pc = "in_cb"
    /\ lastQuery' = QueryResult("cur", op, curFrame)
    /\ UNCHANGED <<config, lastGetFrame, keptFrame, mode, pc, pos, signal_frame, bomb, curFrame,
                   cbReturns, chain, ret, log, delivered, steps, lastStep, endReason,
                   provFailed>>

\* the callback clones the frame it was given and keeps the clone
CbClone ==
    /\ pc = "in_cb"
    /\ saved = NoFrame
    /\ saved' = FrameClone(curFrame)
    /\ liveAtClone' = [valid |-> TRUE, at |-> pos, ip |-> FrameIp(curFrame),
                       sp |-> FrameSp(curFrame),
                       symbol_address |-> FrameSymbolAddress(curFrame)]
    /\ lastQuery' = [on |-> "cur", op |-> "clone", some |-> TRUE, val |-> 0,
                     calls |-> FrameCloneCalls(curFrame)]
    /\ UNCHANGED <<config, lastGetFrame, mode, pc, pos, signal_frame, bomb, curFrame, cbReturns, chain,
                   ret, log, delivered, steps, lastStep, endReason, provFailed>>

\* the kept clone is read, during the walk or after it
SavedQuery(op) ==
    /\ saved # NoFrame
    /\ pc \notin {"aborted", "unwinding"}
    /\ lastQuery' = QueryResult("saved", op, saved)
    /\ UNCHANGED <<config, lastGetFrame, keptFrame, mode, pc, pos, signal_frame, bomb, curFrame,
                   cbReturns, chain, ret, log, delivered, steps, lastStep, endReason,
                   provFailed>>

\* the steps of the walking thread itself
WalkStep ==
    \/ TraceStart
    \/ TraceFnEnter
    \/ \E b \in BOOLEAN : TraceFnReturn(b)
    \/ UnwindBacktraceEnd
    \/ UnwindBacktraceFail
    \/ \E sf \in BOOLEAN : PullStart(sf)
    \/ UnwContextNewCall
    \/ ContextCursorCall
    \/ GetFrameCall
    \/ \E b \in BOOLEAN : PullCallbackReturn(b)
    \/ StepCall
    \/ CallbackPanic

\* what the callback and the holder of a clone may do besides
FrameUse ==
    \/ \E op \in Ops : CbQuery(op)
    \/ CbClone
    \/ \E op \in Ops : SavedQuery(op)

Next == WalkStep \/ FrameUse

Spec == Init /\ [][Next]_vars

\* The walk runs on one thread with no suspension point, so a step that is
\* enabled is taken; a callback is assumed to come back (or fail) eventually.
FairSpec == Spec /\ WF_vars(WalkStep)

-----------------------------------------------------------------------------
(* Properties.                                                             *)

Terminated == pc \in {"done", "aborted"}

IsInit(e) == e.ev \in {"unw_init_local", "unw_init_local2"}

AllContinue == \A i \in 1..Len(cbReturns) : cbReturns[i]

LastReturnedFalse == cbReturns # << >> /\ ~cbReturns[Len(cbReturns)]

Panicked == \E i \in 1..Len(log) : log[i].ev = "cb_panic"

\* C1: once a callback has returned false, nothing more happens in that walk:
\* the false return is the last event of the log (no further callback, step or
\* provider query), as many frames were delivered as callbacks returned, and
\* the walk is over.
C1_StopIsFinal ==
    \A i \in 1..Len(log) :
        (log[i].ev = "cb_ret" /\ log[i].res = 0) =>
            /\ i = Len(log)
            /\ pc = "done"
            /\ Len(delivered) = Len(cbReturns)

C1_Witness ==
    /\ mode = "pull" /\ pc = "done"
    /\ LastReturnedFalse
    /\ Len(delivered) = 2 /\ Depth = 3
    /\ ~provFailed

\* C2: a pull walk that ended on a failure of capture, cursor initialization, a
\* query or a step returns to its caller an error naming that stage.
C2_TypedError ==
    (mode = "pull" /\ pc = "done"
       /\ endReason \in {"capture_failed", "init_failed", "query_failed", "step_failed"})
    => (ret.tag = "Err" /\ ret.stage = endReason)

\* C3 as stated: a pull walk whose provider never failed ends on the End result
\* of a step, after at most Depth + 1 steps, whatever the callback does.
C3_EndsOnEndOfStack ==
    (mode = "pull" /\ pc = "done" /\ ~provFailed) =>
        (steps <= Depth + 1 /\ lastStep.tag = "End")

C3_Safety ==
    mode = "pull" =>
        /\ steps <= Depth + 1
        /\ (pc = "done" /\ ~provFailed) =>
               (LastReturnedFalse \/ (lastStep.tag = "End" /\ steps = Depth))

\* C3 amended: a pull walk always terminates (returns, or the process is
\* terminated by the guard), performs at most Depth + 1 steps, and when the
\* provider never failed it ends either on a callback that returned false or,
\* after exactly Depth steps, on the End result of the last step.
C3_TerminatesBounded == [](C3_Safety) /\ ((mode = "pull") ~> Terminated)

C3_Witness ==
    /\ mode = "pull" /\ pc = "done" /\ ~provFailed
    /\ AllContinue
    /\ Depth = 3 /\ steps = 3 /\ lastStep.tag = "End"

\* C4: the guard is armed exactly while a callback is executing (and stays
\* armed in a process that a failing callback terminated); a callback that
\* exits abnormally terminates the process, with nothing delivered or returned
\* afterwards; when no callback exits abnormally the process is never
\* terminated and the guard is disarmed when the walk returns.
C4_Guard ==
    /\ bomb.enabled <=> pc \in {"in_cb", "aborted"}
    /\ Panicked <=> pc = "aborted"
    /\ Panicked => (log[Len(log)].ev = "cb_panic" /\ ret = NoRet)
    /\ pc = "done" => (~bomb.enabled /\ ret = UnitRet)
    /\ pc # "unwinding"

C4_Witness ==
    /\ pc = "aborted"
    /\ Len(delivered) = 2
    /\ Len(cbReturns) = 1
    /\ bomb.enabled

\* C5: the i-th frame delivered is the i-th frame of the stack, innermost
\* first, never more frames than the stack holds; a walk whose callback always
\* continued and whose provider never failed delivered exactly Depth frames.
C5_InOrder ==
    /\ Len(delivered) <= Depth
    /\ \A i \in 1..Len(delivered) :
         IF mode = "push"
         THEN delivered[i] = Raw(i)
         ELSE delivered[i] = Cloned(stack[i].ip, stack[i].sp, stack[i].start_ip)
    /\ (pc = "done" /\ ~provFailed /\ AllContinue) => Len(delivered) = Depth

C5_Witness ==
    /\ mode = "pull" /\ pc = "done" /\ ~provFailed /\ AllContinue
    /\ Len(delivered) = 3

\* C6: a kept clone holds the ip, sp and symbol address the accessors returned
\* on the frame when it was cloned, and reading the clone later returns those
\* values without any call to the provider, wherever the walk has got to.
C6_CloneKeepsValues ==
    /\ liveAtClone.valid =>
         saved = Cloned(liveAtClone.ip, liveAtClone.sp, liveAtClone.symbol_address)
    /\ lastQuery.on = "saved" =>
         /\ lastQuery.calls = << >>
         /\ lastQuery.op = "ip" => lastQuery.val = liveAtClone.ip
         /\ lastQuery.op = "sp" => lastQuery.val = liveAtClone.sp
         /\ lastQuery.op = "symbol_address" => lastQuery.val = liveAtClone.symbol_address

C6_Witness ==
    /\ mode = "push" /\ pc = "done"
    /\ liveAtClone.valid /\ liveAtClone.at = 1 /\ pos = 3
    /\ liveAtClone.symbol_address # liveAtClone.ip
    /\ lastQuery.on = "saved" /\ lastQuery.op = "symbol_address"

\* C7: in the push walk a callback result of true is answered with
\* _URC_NO_REASON and false with _URC_FAILURE, and trace returns the unit value
\* whatever ended the walk: a stop asked by the callback, a failure inside the
\* provider and the end of the stack all look the same to the caller.
C7_PushReturnsNothing ==
    mode = "push" =>
        /\ \A i \in 1..Len(log) :
             log[i].ev = "cb_ret" =>
                 log[i].arg = (IF log[i].res = 1 THEN URC_NO_REASON ELSE URC_FAILURE)
        /\ pc = "done" =>
             /\ endReason \in {"callback_stop", "provider_failure", "end_of_stack"}
             /\ ret = UnitRet

C7_Witness ==
    /\ mode = "push" /\ pc = "done"
    /\ endReason = "provider_failure"
    /\ Len(delivered) = 2 /\ AllContinue

\* C8 as stated: in every build the initialization primitive receives the
\* caller's signal_frame as its flag.
C8_FlagPassedEverywhere ==
    \A i \in 1..Len(log) :
        IsInit(log[i]) =>
            log[i].arg = (IF signal_frame THEN UNW_INIT_SIGNAL_FRAME ELSE 0)

\* C8 amended: with the nongnu-unwind feature the cursor is initialized by
\* unw_init_local2 with the flag UNW_INIT_SIGNAL_FRAME when signal_frame is true
\* and 0 when it is false; with the llvm-unwind feature it is initialized by
\* unw_init_local, which is given no flag, whatever signal_frame is.
C8_FlagPassedByNongnu ==
    \A i \in 1..Len(log) :
        IsInit(log[i]) =>
            IF feature = "nongnu"
            THEN /\ log[i].ev = "unw_init_local2"
                 /\ log[i].arg = (IF signal_frame THEN UNW_INIT_SIGNAL_FRAME ELSE 0)
            ELSE /\ log[i].ev = "unw_init_local"
                 /\ log[i].arg = 0

C8_Witness ==
    /\ feature = "nongnu" /\ signal_frame
    /\ \E i \in 1..Len(log) : IsInit(log[i]) /\ log[i].arg = 1 /\ log[i].res = 0

\* C9: the error of a failed capture carries the status unw_getcontext
\* returned, and the error of a failed cursor initialization carries the
\* status the initialization primitive returned.
C9_CodeCarried ==
    (log # << >> /\ log[Len(log)].res # 0) =>
        /\ log[Len(log)].ev = "unw_getcontext" => chain = UnwindError(log[Len(log)].res)
        /\ IsInit(log[Len(log)]) => chain = UnwindError(log[Len(log)].res)

\* C10: symbol_address() of a Cloned frame is its stored field; of a Raw frame
\* on macOS or iOS it is the frame's instruction pointer, obtained without
\* calling _Unwind_FindEnclosingFunction; of a Raw frame elsewhere it is
\* _Unwind_FindEnclosingFunction of the frame's instruction pointer.
C10_SymbolAddress ==
    (lastQuery.op = "symbol_address") =>
        IF lastQuery.on = "saved"
        THEN lastQuery.val = saved.symbol_address /\ lastQuery.calls = << >>
        ELSE IF curFrame.kind = "Cloned"
        THEN lastQuery.val = curFrame.symbol_address /\ lastQuery.calls = << >>
        ELSE IF target.os \in {"macos", "ios"}
        THEN /\ lastQuery.val = Unwind_GetIP(curFrame.ctx)
             /\ lastQuery.calls = <<"_Unwind_GetIP">>
        ELSE /\ lastQuery.val = Unwind_FindEnclosingFunction(Unwind_GetIP(curFrame.ctx))
             /\ lastQuery.calls = <<"_Unwind_GetIP", "_Unwind_FindEnclosingFunction">>

C10_Witness ==
    /\ lastQuery.op = "symbol_address" /\ lastQuery.on = "cur"
    /\ curFrame.kind = "Raw"
    /\ target.os = "macos"
    /\ lastQuery.val = stack[pos].ip
    /\ lastQuery.val # stack[pos].start_ip

IsQuery(e) == e.ev \in {"unw_get_proc_info", "unw_get_reg"}

\* C11: with signal_frame = false, a capture that answers 0 makes
\* UnwContext::new return Ok, an initialization that answers 0 makes cursor
\* return Ok, and three queries that answer 0 make get_frame return Ok with a
\* Cloned frame holding the ip and sp registers of the cursor's frame and the
\* proc-info start address as its symbol address.
C11_SuccessGivesFrame ==
    (mode = "pull" /\ ~signal_frame) =>
        /\ (Len(log) >= 1 /\ log[1].res = 0) =>
              /\ endReason # "capture_failed"
              /\ Len(log) = 1 => (chain = Ok /\ pc = "init")
        /\ (Len(log) >= 2 /\ log[2].res = 0) =>
              /\ endReason # "init_failed"
              /\ Len(log) = 2 => (chain = Ok /\ pc = "get_frame")
        /\ \A i \in 1..Len(log) :
              (/\ i + 2 <= Len(log)
               /\ log[i].ev = "unw_get_proc_info"
               /\ log[i].res = 0 /\ log[i + 1].res = 0 /\ log[i + 2].res = 0
               /\ IsQuery(log[i + 1]) /\ IsQuery(log[i + 2])) =>
                  /\ Len(delivered) >= log[i].pos
                  /\ delivered[log[i].pos].kind = "Cloned"
                  /\ delivered[log[i].pos].ip = stack[log[i].pos].ip
                  /\ delivered[log[i].pos].sp = stack[log[i].pos].sp
                  /\ delivered[log[i].pos].symbol_address = stack[log[i].pos].start_ip
                  /\ (i + 3 = Len(log)) => (lastGetFrame = Ok /\ pc = "in_cb")

C11_Witness ==
    /\ mode = "pull" /\ ~signal_frame /\ pc = "in_cb"
    /\ Len(log) = 6
    /\ lastGetFrame = Ok
    /\ curFrame = Cloned(stack[1].ip, stack[1].sp, stack[1].start_ip)

\* C12: a query that answers a non-zero status r is the last thing the pull
\* walk does: get_frame returns the error carrying r without issuing the
\* queries after it, the callback is not invoked for that cursor position, and
\* the walk is over with no further step, query or callback.
C12_QueryFailureAbandons ==
    \A i \in 1..Len(log) :
        (IsQuery(log[i]) /\ log[i].res # 0) =>
            /\ i = Len(log)
            /\ pc = "done"
            /\ endReason = "query_failed"
            /\ lastGetFrame = UnwindError(log[i].res)
            /\ Len(delivered) = log[i].pos - 1
            /\ steps = log[i].pos - 1

C12_Witness ==
    /\ pc = "done" /\ endReason = "query_failed"
    /\ pos = 2
    /\ log[Len(log)].ev = "unw_get_reg" /\ log[Len(log)].arg = UNW_REG_IP
    /\ lastGetFrame = UnwindError(log[Len(log)].res)

\* the status codes step is tried on, beyond those a walk meets
StepInputs == (0 - MaxCode - 2)..(MaxCode + 2)

\* C13: step classifies a status r as Success when r > 0, End when r = 0 and
\* Error(r) when r < 0; after Success the loop goes on to query the next
\* frame, after End or Error the walk is over and nothing more is queried or
\* delivered.
C13_StepClassification ==
    /\ \A r \in StepInputs :
          StepClassify(r) = (IF r > 0 THEN [tag |-> "Success", code |-> 0]
                             ELSE IF r = 0 THEN [tag |-> "End", code |-> 0]
                             ELSE [tag |-> "Error", code |-> r])
    /\ \A i \in 1..Len(log) :
          log[i].ev = "unw_step" =>
              /\ log[i].res > 0 =>
                    IF i = Len(log)
                    THEN pc = "get_frame" /\ lastStep.tag = "Success"
                    ELSE log[i + 1].ev = "unw_get_proc_info"
              /\ log[i].res = 0 =>
                    /\ i = Len(log) /\ pc = "done"
                    /\ lastStep = [tag |-> "End", code |-> 0]
                    /\ endReason = "end_of_stack"
              /\ log[i].res < 0 =>
                    /\ i = Len(log) /\ pc = "done"
                    /\ lastStep = [tag |-> "Error", code |-> log[i].res]
                    /\ endReason = "step_failed"

C13_Witness ==
    /\ pc = "done" /\ endReason = "step_failed"
    /\ steps = 2
    /\ lastStep.tag = "Error" /\ lastStep.code = 0 - 2

\* C14: a pull walk captures the context exactly once, as the first thing it
\* does; it initializes the cursor at most once, right after a capture that
\* succeeded; every query, step and callback comes after an initialization
\* that succeeded; after a failed capture or initialization nothing else
\* happens.
C14_CaptureInitOrder ==
    mode = "pull" =>
        /\ pc = "capture" <=> log = << >>
        /\ \A i \in 1..Len(log) :
              /\ log[i].ev = "unw_getcontext" <=> i = 1
              /\ IsInit(log[i]) => (i = 2 /\ log[1].res = 0)
              /\ i >= 3 => (IsInit(log[2]) /\ log[2].res = 0 /\ log[1].res = 0)
              /\ (i <= 2 /\ log[i].res # 0) =>
                    /\ Len(log) = i /\ pc = "done"
                    /\ delivered = << >> /\ steps = 0 /\ cbReturns = << >>

C14_Witness ==
    /\ mode = "pull" /\ pc = "done" /\ endReason = "end_of_stack"
    /\ Depth = 2 /\ steps = 2 /\ Len(delivered) = 2
    /\ log[1].ev = "unw_getcontext" /\ IsInit(log[2])

\* C15: calling an accessor or clone on a frame, or get_frame on the cursor,
\* leaves the provider's position and stack as they were; in the pull walk the
\* position is set to the innermost frame by the cursor's initialization and
\* afterwards moves only by a step, one frame outwards; module_base_address
\* answers None.
C15_FrameEffect ==
    [][ /\ lastQuery'.on # "none" => (pos' = pos /\ stack' = stack)
        /\ pc = "get_frame" => (pos' = pos /\ stack' = stack)
        /\ (mode = "pull" /\ pos' # pos) =>
              \/ pc = "init" /\ pos' = 1
              \/ pc = "step" /\ pos' = pos + 1 /\ steps' = steps + 1
        /\ lastQuery'.op = "module_base_address" => ~lastQuery'.some
      ]_vars

C15_Witness ==
    /\ mode = "pull" /\ pc = "in_cb" /\ pos = 2
    /\ lastQuery.on = "cur" /\ lastQuery.op = "module_base_address"
    /\ ~lastQuery.some

\* bit k of the word x
Bit(x, k) == (x \div (2 ^ k)) % 2

\* C16: on the ARM EABI targets ip() of a Raw frame is the word the provider
\* holds for core register 15 with bit 0 cleared and every other bit as it
\* was, and sp() is the word it holds for core register 13; when
\* _Unwind_VRS_Get fails and writes nothing, both are 0.
C16_VrsWords ==
    (VrsTarget(target) /\ lastQuery.on = "cur" /\ curFrame.kind = "Raw") =>
        /\ lastQuery.op = "ip" =>
              IF vrsOk
              THEN /\ Bit(lastQuery.val, 0) = 0
                   /\ \A k \in 1..30 :
                         Bit(lastQuery.val, k) = Bit(stack[curFrame.ctx].ip, k)
              ELSE lastQuery.val = 0
        /\ lastQuery.op = "sp" =>
              lastQuery.val = (IF vrsOk THEN stack[curFrame.ctx].sp ELSE 0)

C16_Witness ==
    /\ VrsTarget(target) /\ vrsOk
    /\ lastQuery.on = "cur" /\ lastQuery.op = "ip" /\ curFrame.kind = "Raw"
    /\ stack[curFrame.ctx].ip % 2 = 1
    /\ stack[curFrame.ctx].ip > 2 ^ 30
    /\ lastQuery.val = stack[curFrame.ctx].ip - 1

\* the steps that answered Success
SuccSteps == Cardinality({i \in 1..Len(log) : log[i].ev = "unw_step" /\ log[i].res > 0})

\* what the pull loop keeps in every state: no more steps than callbacks that
\* returned, a step right after a callback that returned true, a callback
\* right after the three queries of a get_frame that succeeded at the cursor's
\* position
C17_LoopShape ==
    /\ steps <= Len(cbReturns)
    /\ \A i \in 1..Len(log) :
          /\ log[i].ev = "unw_step" =>
                (i > 1 /\ log[i - 1].ev = "cb_ret" /\ log[i - 1].res = 1)
          /\ log[i].ev = "cb_enter" =>
                /\ i > 3
                /\ \A j \in (i - 3)..(i - 1) :
                      IsQuery(log[j]) /\ log[j].res = 0 /\ log[j].pos = log[i].pos
                /\ i = Len(log) => log[i].pos = pos

\* C17 as stated: ... and callback invocations = successful steps + 1 as soon
\* as one frame was delivered.
C17_InvocationsAreStepsPlusOne ==
    mode = "pull" =>
        /\ C17_LoopShape
        /\ Len(delivered) >= 1 => Len(delivered) = SuccSteps + 1

\* C17 amended: ... and once a frame was delivered, callback invocations =
\* successful steps + 1, except from a successful step until the next get_frame
\* succeeds (and for good when that get_frame fails), where callback
\* invocations = successful steps.
C17_InvocationsVsSteps ==
    mode = "pull" =>
        /\ C17_LoopShape
        /\ Len(delivered) >= 1 =>
              Len(delivered) =
                  SuccSteps + (IF pc = "get_frame" \/ endReason = "query_failed"
                               THEN 0 ELSE 1)

C17_Witness ==
    /\ mode = "pull" /\ pc = "done" /\ endReason = "query_failed"
    /\ Len(delivered) = 2 /\ SuccSteps = 2 /\ steps = 2

====
